---- MODULE Spec2Model ----
(***************************************************************************)
(* HTTP/SSE gateway of the Zammad MCP server (mcp_zammad/http_server.py).  *)
(*                                                                         *)
(* A Python str is the sequence of its "/"-separated segments, so that     *)
(* "resources/read/a" is <<"resources", "read", "a">> and the prefix       *)
(* "resources/read/" is <<"resources", "read", "">>.  A Python value is a  *)
(* record tagged by its type in field t.  The text of a message built by   *)
(* an f-string is the sequence of its literal fragments and of the         *)
(* segments of the strings it embeds, in order.                            *)
(***************************************************************************)
EXTENDS Integers, Sequences, FiniteSets, TLC

\* ------------------------------------------------------------------ bounds
\* Longest filler (in segments) of a method string.
MaxSegs == 2
\* Number of distinct values uuid.uuid4() can draw.
NumUUIDs == 2

\* ----------------------------------------------------------------- strings
Seg == {"tools", "list", "call", "resources", "read", "prompts", "get", "x", ""}

SeqsUpTo(S, n) == UNION {[1..k -> S] : k \in 1..n}

\* A literal fragment of an f-string or message: one segment.
Lit(text) == <<text>>

\* str.startswith(prefix) for a prefix that ends in "/" (last segment "").
startswith(s, prefix) ==
    /\ Len(s) >= Len(prefix)
    /\ \A i \in 1..(Len(prefix) - 1) : s[i] = prefix[i]

\* s[len(prefix):] for a prefix that ends in "/".
RemainderAfter(s, prefix) == SubSeq(s, Len(prefix), Len(s))

\* str.replace(old, "") for an old that ends in "/": every non-overlapping
\* occurrence, scanned left to right, is removed.
RECURSIVE replace(_, _)
replace(s, old) ==
    IF Len(s) < Len(old) THEN s
    ELSE IF startswith(s, old)
         THEN replace(SubSeq(s, Len(old), Len(s)), old)
         ELSE <<s[1]>> \o replace(Tail(s), old)

\* ------------------------------------------------------------ Python values
PyNone == [t |-> "None"]
PyStr(s) == [t |-> "str", s |-> s]
PyInt(n) == [t |-> "int", n |-> n]
PyDict(d) == [t |-> "dict", d |-> d]
PyList(items) == [t |-> "list", items |-> items]
\* A pydantic model instance: exposes model_dump(), dict() and __dict__.
PyModel(fields) == [t |-> "model", fields |-> fields]
\* An object exposing dict() and __dict__ but no model_dump().
PyDictable(fields) == [t |-> "dictable", fields |-> fields]
\* Any other object: only __dict__.
PyObject(fields) == [t |-> "object", fields |-> fields]

EmptyMapping == [k \in {} |-> PyNone]
EmptyDict == PyDict(EmptyMapping)

\* bool(v)
Truthy(v) ==
    CASE v.t = "None" -> FALSE
      [] v.t = "str" -> v.s # <<"">>
      [] v.t = "int" -> v.n # 0
      [] v.t = "dict" -> DOMAIN v.d # {}
      [] v.t = "list" -> Len(v.items) > 0
      [] OTHER -> TRUE

\* a or b
Or(a, b) == IF Truthy(a) THEN a ELSE b

\* dict.get(key, default)
get(dict, key, default) == IF key \in DOMAIN dict.d THEN dict.d[key] ELSE default

\* hasattr(v, name) for the three attributes the gateway probes.
hasattr(v, name) ==
    CASE name = "model_dump" -> v.t = "model"
      [] name = "dict" -> v.t \in {"model", "dictable"}
      [] name = "__dict__" -> v.t \in {"model", "dictable", "object"}
      [] OTHER -> FALSE

\* str(v) as json.dumps(default=str) applies it to an object it cannot encode.
str(v) == PyStr(Lit("<" \o v.t \o " object>"))

\* f"{v}": the text a value contributes to an f-string.
Fmt(v) == IF v.t = "str" THEN v.s ELSE str(v).s

\* model.model_dump(): the fields, nested models dumped too.
RECURSIVE model_dump(_)
model_dump(v) ==
    CASE v.t \in {"model", "dictable"} ->
             PyDict([k \in DOMAIN v.fields |-> model_dump(v.fields[k])])
      [] v.t = "dict" -> PyDict([k \in DOMAIN v.d |-> model_dump(v.d[k])])
      [] v.t = "list" -> PyList([i \in 1..Len(v.items) |-> model_dump(v.items[i])])
      [] OTHER -> v

\* obj.__dict__: the attributes as they are, nested objects kept.
__dict__(v) == PyDict(v.fields)

\* --------------------------------------------------------------------- JSON
\* Whether json.dumps(v) without default= can encode v.
RECURSIVE Encodable(_)
Encodable(v) ==
    CASE v.t \in {"None", "str", "int"} -> TRUE
      [] v.t = "dict" -> \A k \in DOMAIN v.d : Encodable(v.d[k])
      [] v.t = "list" -> \A i \in 1..Len(v.items) : Encodable(v.items[i])
      [] OTHER -> FALSE

\* The JSON text json.dumps(v, default=str) writes, as a JSON tree.
RECURSIVE ToJson(_)
ToJson(v) ==
    CASE v.t = "None" -> [j |-> "null"]
      [] v.t = "str" -> [j |-> "string", s |-> v.s]
      [] v.t = "int" -> [j |-> "number", n |-> v.n]
      [] v.t = "dict" -> [j |-> "object", d |-> [k \in DOMAIN v.d |-> ToJson(v.d[k])]]
      [] v.t = "list" ->
             [j |-> "array", items |-> [i \in 1..Len(v.items) |-> ToJson(v.items[i])]]
      [] OTHER -> [j |-> "string", s |-> str(v).s]

\* --------------------------------------------------------------- exceptions
HTTPException(status_code, detail) ==
    [type |-> "HTTPException", status_code |-> status_code, detail |-> detail]
ValueError(msg) == [type |-> "ValueError", msg |-> msg]
TypeError(msg) == [type |-> "TypeError", msg |-> msg]
\* An exception raised inside the core; kind is what the failure is, msg its str().
CoreError(kind, msg) == [type |-> "CoreError", kind |-> kind, msg |-> msg]

\* str(e).  starlette's HTTPException.__str__ is "<status_code>: <detail>".
ExcStr(e) ==
    IF e.type = "HTTPException"
    THEN Lit(ToString(e.status_code)) \o Lit(": ") \o e.detail
    ELSE e.msg

\* ----------------------------------------------------------- the RPC core
\* What a call into the core (self.mcp_server.mcp.<op>) comes back with.
Returned(v) == [ok |-> TRUE, value |-> v]
Failed(kind, msg) == [ok |-> FALSE, exc |-> CoreError(kind, Lit(msg))]

Kinds == {"NotFound", "InvalidRequest", "InternalError"}
CoreMessages == {"Tool not found", "Resource not found", "Unknown tool", ""}
\* The kinds of failure each operation of the core can report: a listing has
\* nothing to look up, reading a resource takes no arguments.
KindsOf(op) ==
    CASE op \in {"list_tools", "list_resources", "list_prompts"} -> {"InternalError"}
      [] op = "read_resource" -> {"NotFound", "InternalError"}
      [] OTHER -> Kinds
CoreFailures(op) == {Failed(k, m) : k \in KindsOf(op), m \in CoreMessages}

PlainValue == PyDict([text |-> PyStr(<<"x">>)])
FlatModel == PyModel([id |-> PyInt(1)])
NestedModel == PyModel([id |-> PyInt(1), owner |-> PyModel([id |-> PyInt(2)])])
CoreValues ==
    { PyNone, PlainValue, FlatModel, NestedModel,
      PyDictable([id |-> PyInt(1)]), PyObject([id |-> PyInt(1)]),
      PyList(<<>>), PyList(<<FlatModel>>), PyList(<<NestedModel>>),
      PyList(<<NestedModel, PlainValue>>) }

\* read_resource: an object with attributes mimeType and text, either may be None.
ReadValues ==
    { [mimeType |-> m, text |-> x] :
        m \in {PyNone, PyStr(<<"">>), PyStr(<<"application", "json">>)},
        x \in {PyNone, PyStr(<<"">>), PyStr(<<"x">>)} }

\* list_tools / list_resources / list_prompts: a catalog of descriptor objects.
ToolLikes ==
    { [name |-> PyStr(<<"t1">>), description |-> PyNone, inputSchema |-> PyNone],
      [name |-> PyStr(<<"t2">>), description |-> PyStr(<<"d">>),
       inputSchema |-> PyDict([type |-> PyStr(<<"object">>)])] }
ResourceLikes ==
    { [uri |-> PyStr(<<"x">>), name |-> PyNone, description |-> PyNone,
       mimeType |-> PyNone],
      [uri |-> PyStr(<<"x", "x">>), name |-> PyStr(<<"r">>),
       description |-> PyStr(<<"d">>), mimeType |-> PyStr(<<"application", "json">>)] }
\* hasArguments: whether the prompt object has an attribute "arguments" at all.
PromptLikes ==
    { [name |-> PyStr(<<"p1">>), description |-> PyNone, hasArguments |-> FALSE,
       arguments |-> PyNone],
      [name |-> PyStr(<<"p2">>), description |-> PyStr(<<"d">>), hasArguments |-> TRUE,
       arguments |-> PyNone],
      [name |-> PyStr(<<"p3">>), description |-> PyStr(<<"d">>), hasArguments |-> TRUE,
       arguments |-> PyList(<<PyStr(<<"a">>)>>)] }

\* Longest catalog the core returns.
MaxCatalog == 2
Catalogs(S) == {<<>>} \cup SeqsUpTo(S, MaxCatalog)

Operations ==
    {"list_tools", "list_resources", "list_prompts", "call_tool", "read_resource",
     "get_prompt"}

\* The outcomes the core can produce for each operation.
OutcomesOf ==
    [op \in Operations |->
    CoreFailures(op) \cup
    CASE op = "list_tools" -> {Returned(PyList(c)) : c \in Catalogs(ToolLikes)}
      [] op = "list_resources" -> {Returned(PyList(c)) : c \in Catalogs(ResourceLikes)}
      [] op = "list_prompts" -> {Returned(PyList(c)) : c \in Catalogs(PromptLikes)}
      [] op = "read_resource" -> {Returned(v) : v \in ReadValues}
      [] OTHER -> {Returned(v) : v \in CoreValues}]
CoreOutcomes(op) == OutcomesOf[op]

\* ------------------------------------------------------ capability adapters
\* An adapter's outcome: a value returned or an exception raised.
Return(v) == [raised |-> FALSE, value |-> v]
Raise(e) == [raised |-> TRUE, exc |-> e]

\* Variant: the descriptors are copied without "or": an absent description or
\* schema stays None.
_list_tools_no_defaults(outcome) ==
    IF ~outcome.ok THEN Raise(outcome.exc)
    ELSE LET tools_list == outcome.value.items
             tools == [i \in 1..Len(tools_list) |->
                         PyDict([name |-> tools_list[i].name,
                                 description |-> tools_list[i].description,
                                 inputSchema |-> tools_list[i].inputSchema])]
         IN Return(PyDict([tools |-> PyList(tools)]))

_list_tools(outcome) ==
    IF ~outcome.ok THEN Raise(outcome.exc)
    ELSE LET tools_list == outcome.value.items
             tools == [i \in 1..Len(tools_list) |->
                         PyDict([name |-> tools_list[i].name,
                                 description |-> Or(tools_list[i].description, PyStr(<<"">>)),
                                 inputSchema |-> Or(tools_list[i].inputSchema, EmptyDict)])]
         IN Return(PyDict([tools |-> PyList(tools)]))

_list_resources(outcome) ==
    IF ~outcome.ok THEN Raise(outcome.exc)
    ELSE LET resources_list == outcome.value.items
             resources == [i \in 1..Len(resources_list) |->
                 PyDict([uri |-> resources_list[i].uri,
                         name |-> Or(resources_list[i].name, PyStr(<<"">>)),
                         description |-> Or(resources_list[i].description, PyStr(<<"">>)),
                         mimeType |-> Or(resources_list[i].mimeType,
                                         PyStr(<<"text", "plain">>))])]
         IN Return(PyDict([resources |-> PyList(resources)]))

_list_prompts(outcome) ==
    IF ~outcome.ok THEN Raise(outcome.exc)
    ELSE LET prompts_list == outcome.value.items
             prompts == [i \in 1..Len(prompts_list) |->
                 PyDict([name |-> prompts_list[i].name,
                         description |-> Or(prompts_list[i].description, PyStr(<<"">>)),
                         arguments |->
                             Or(IF prompts_list[i].hasArguments
                                THEN prompts_list[i].arguments ELSE PyList(<<>>),
                                PyList(<<>>))])]
         IN Return(PyDict([prompts |-> PyList(prompts)]))

\* The model/dict conversion shared by _call_tool and _get_prompt.
Normalize(result) ==
    IF hasattr(result, "model_dump") THEN model_dump(result)
    ELSE IF hasattr(result, "dict") THEN model_dump(result)
    ELSE result

\* Variant: the ValueError names the tool but leaves out str(e).
_call_tool_drops_cause(tool_name, outcome) ==
    IF outcome.ok THEN Return(Normalize(outcome.value))
    ELSE Raise(ValueError(Lit("Error calling tool ") \o Fmt(tool_name)))

_call_tool(tool_name, outcome) ==
    IF outcome.ok THEN Return(Normalize(outcome.value))
    ELSE Raise(ValueError(Lit("Error calling tool ") \o Fmt(tool_name) \o Lit(": ")
                          \o ExcStr(outcome.exc)))

\* Variant: the text of the core is copied without "or": an absent text stays
\* None.
_read_resource_no_text_default(resource_uri, outcome) ==
    IF outcome.ok
    THEN Return(PyDict([contents |-> PyList(<<
             PyDict([uri |-> resource_uri,
                     mimeType |-> Or(outcome.value.mimeType, PyStr(<<"text", "plain">>)),
                     text |-> outcome.value.text])>>)]))
    ELSE Raise(ValueError(Lit("Error reading resource ") \o Fmt(resource_uri) \o Lit(": ")
                          \o ExcStr(outcome.exc)))

_read_resource(resource_uri, outcome) ==
    IF outcome.ok
    THEN Return(PyDict([contents |-> PyList(<<
             PyDict([uri |-> resource_uri,
                     mimeType |-> Or(outcome.value.mimeType, PyStr(<<"text", "plain">>)),
                     text |-> Or(outcome.value.text, PyStr(<<"">>))])>>)]))
    ELSE Raise(ValueError(Lit("Error reading resource ") \o Fmt(resource_uri) \o Lit(": ")
                          \o ExcStr(outcome.exc)))

\* Variant: a failure of the core is swallowed and answered as no result.
_get_prompt_swallows_failure(prompt_name, outcome) ==
    IF outcome.ok THEN Return(Normalize(outcome.value))
    ELSE Return(PyNone)

_get_prompt(prompt_name, outcome) ==
    IF outcome.ok THEN Return(Normalize(outcome.value))
    ELSE Raise(ValueError(Lit("Error getting prompt ") \o Fmt(prompt_name) \o Lit(": ")
                          \o ExcStr(outcome.exc)))

\* The adapter a resolved call goes through, applied to what the core answers.
Adapter(call, outcome) ==
    CASE call.op = "list_tools" -> _list_tools(outcome)
      [] call.op = "list_resources" -> _list_resources(outcome)
      [] call.op = "list_prompts" -> _list_prompts(outcome)
      [] call.op = "call_tool" -> _call_tool(call.target, outcome)
      [] call.op = "read_resource" -> _read_resource(call.target, outcome)
      [] call.op = "get_prompt" -> _get_prompt(call.target, outcome)

\* ------------------------------------------------------------ method router
TOOLS_LIST == <<"tools", "list">>
RESOURCES_LIST == <<"resources", "list">>
PROMPTS_LIST == <<"prompts", "list">>
TOOLS_CALL == <<"tools", "call">>
TOOLS_CALL_PREFIX == <<"tools", "call", "">>
RESOURCES_READ_PREFIX == <<"resources", "read", "">>
PROMPTS_GET_PREFIX == <<"prompts", "get", "">>

\* What routing resolves to: a call into the core through an adapter, an
\* exception, or (streaming only) an error event yielded without an exception.
Call(op, target, args) == [act |-> "call", op |-> op, target |-> target, args |-> args]
Throw(e) == [act |-> "raise", exc |-> e]
YieldError(data) == [act |-> "yield_error", data |-> data]
NoCall == [act |-> "none"]

\* Variant: the tools/call branch of mcp_call hands the whole params mapping to
\* the tool.
mcp_call_tools_call_whole_params(request) ==
    LET params == Or(request.params, EmptyDict)
        tool_name == get(params, "name", PyNone)
    IN IF ~Truthy(tool_name)
       THEN Throw(HTTPException(400, Lit("Missing 'name' parameter in tools/call")))
       ELSE Call("call_tool", tool_name, params)

\* The literal tools/call branch of mcp_call.
mcp_call_tools_call(request) ==
    LET params == Or(request.params, EmptyDict)
        tool_name == get(params, "name", PyNone)
    IN IF ~Truthy(tool_name)
       THEN Throw(HTTPException(400, Lit("Missing 'name' parameter in tools/call")))
       ELSE Call("call_tool", tool_name, get(params, "arguments", EmptyDict))

\* Variant: the prompts/list branch calls the resources adapter.
mcp_call_dispatch_wrong_list(request) ==
    LET method == request.method IN
    IF method = TOOLS_LIST THEN Call("list_tools", PyNone, PyNone)
    ELSE IF method = RESOURCES_LIST THEN Call("list_resources", PyNone, PyNone)
    ELSE IF method = PROMPTS_LIST THEN Call("list_resources", PyNone, PyNone)
    ELSE IF method = TOOLS_CALL THEN mcp_call_tools_call(request)
    ELSE IF startswith(method, RESOURCES_READ_PREFIX)
         THEN Call("read_resource", PyStr(replace(method, RESOURCES_READ_PREFIX)), PyNone)
    ELSE IF startswith(method, PROMPTS_GET_PREFIX)
         THEN Call("get_prompt", PyStr(replace(method, PROMPTS_GET_PREFIX)),
                   Or(request.params, EmptyDict))
    ELSE Throw(HTTPException(404, Lit("Method not found: ") \o method))

\* The if/elif chain of mcp_call, up to the first await or raise.
mcp_call_dispatch(request) ==
    LET method == request.method IN
    IF method = TOOLS_LIST THEN Call("list_tools", PyNone, PyNone)
    ELSE IF method = RESOURCES_LIST THEN Call("list_resources", PyNone, PyNone)
    ELSE IF method = PROMPTS_LIST THEN Call("list_prompts", PyNone, PyNone)
    ELSE IF method = TOOLS_CALL THEN mcp_call_tools_call(request)
    ELSE IF startswith(method, RESOURCES_READ_PREFIX)
         THEN Call("read_resource", PyStr(replace(method, RESOURCES_READ_PREFIX)), PyNone)
    ELSE IF startswith(method, PROMPTS_GET_PREFIX)
         THEN Call("get_prompt", PyStr(replace(method, PROMPTS_GET_PREFIX)),
                   Or(request.params, EmptyDict))
    ELSE Throw(HTTPException(404, Lit("Method not found: ") \o method))

\* Variant: _handle_method with the branches of mcp_call, no tools/call/ prefix.
_handle_method_no_legacy(method, params) ==
    IF method = TOOLS_LIST THEN Call("list_tools", PyNone, PyNone)
    ELSE IF method = RESOURCES_LIST THEN Call("list_resources", PyNone, PyNone)
    ELSE IF method = PROMPTS_LIST THEN Call("list_prompts", PyNone, PyNone)
    ELSE IF startswith(method, RESOURCES_READ_PREFIX)
         THEN Call("read_resource", PyStr(replace(method, RESOURCES_READ_PREFIX)), PyNone)
    ELSE IF startswith(method, PROMPTS_GET_PREFIX)
         THEN Call("get_prompt", PyStr(replace(method, PROMPTS_GET_PREFIX)),
                   Or(params, EmptyDict))
    ELSE Throw(ValueError(Lit("Unknown method: ") \o method))

\* Variant: the URI of resources/read/<uri> is taken as what follows the last
\* "/" of the method.
_handle_method_last_segment(method, params) ==
    IF method = TOOLS_LIST THEN Call("list_tools", PyNone, PyNone)
    ELSE IF method = RESOURCES_LIST THEN Call("list_resources", PyNone, PyNone)
    ELSE IF method = PROMPTS_LIST THEN Call("list_prompts", PyNone, PyNone)
    ELSE IF startswith(method, TOOLS_CALL_PREFIX)
         THEN Call("call_tool", PyStr(replace(method, TOOLS_CALL_PREFIX)),
                   Or(params, EmptyDict))
    ELSE IF startswith(method, RESOURCES_READ_PREFIX)
         THEN Call("read_resource", PyStr(<<method[Len(method)]>>), PyNone)
    ELSE IF startswith(method, PROMPTS_GET_PREFIX)
         THEN Call("get_prompt", PyStr(replace(method, PROMPTS_GET_PREFIX)),
                   Or(params, EmptyDict))
    ELSE Throw(ValueError(Lit("Unknown method: ") \o method))

\* Variant: prompts/get/<name> passes params on as it is, None included.
_handle_method_params_as_is(method, params) ==
    IF method = TOOLS_LIST THEN Call("list_tools", PyNone, PyNone)
    ELSE IF method = RESOURCES_LIST THEN Call("list_resources", PyNone, PyNone)
    ELSE IF method = PROMPTS_LIST THEN Call("list_prompts", PyNone, PyNone)
    ELSE IF startswith(method, TOOLS_CALL_PREFIX)
         THEN Call("call_tool", PyStr(replace(method, TOOLS_CALL_PREFIX)),
                   Or(params, EmptyDict))
    ELSE IF startswith(method, RESOURCES_READ_PREFIX)
         THEN Call("read_resource", PyStr(replace(method, RESOURCES_READ_PREFIX)), PyNone)
    ELSE IF startswith(method, PROMPTS_GET_PREFIX)
         THEN Call("get_prompt", PyStr(replace(method, PROMPTS_GET_PREFIX)), params)
    ELSE Throw(ValueError(Lit("Unknown method: ") \o method))

_handle_method(method, params) ==
    IF method = TOOLS_LIST THEN Call("list_tools", PyNone, PyNone)
    ELSE IF method = RESOURCES_LIST THEN Call("list_resources", PyNone, PyNone)
    ELSE IF method = PROMPTS_LIST THEN Call("list_prompts", PyNone, PyNone)
    ELSE IF startswith(method, TOOLS_CALL_PREFIX)
         THEN Call("call_tool", PyStr(replace(method, TOOLS_CALL_PREFIX)),
                   Or(params, EmptyDict))
    ELSE IF startswith(method, RESOURCES_READ_PREFIX)
         THEN Call("read_resource", PyStr(replace(method, RESOURCES_READ_PREFIX)), PyNone)
    ELSE IF startswith(method, PROMPTS_GET_PREFIX)
         THEN Call("get_prompt", PyStr(replace(method, PROMPTS_GET_PREFIX)),
                   Or(params, EmptyDict))
    ELSE Throw(ValueError(Lit("Unknown method: ") \o method))

\* ----------------------------------------------------------- unary endpoint
INTERNAL_ERROR == -32603

MCPResponse(result, error) == [result |-> result, error |-> error]
\* Variant: an HTTPException puts its HTTP status in the error's code.
ErrorObject_http_status_code(e) ==
    PyDict([code |-> PyInt(IF e.type = "HTTPException" THEN e.status_code
                           ELSE INTERNAL_ERROR),
            message |-> PyStr(ExcStr(e))])

ErrorObject(e) == PyDict([code |-> PyInt(INTERNAL_ERROR), message |-> PyStr(ExcStr(e))])

\* The JSON the framework writes for the field `result: Any` of the MCPResponse
\* mcp_call returns: a model instance is written as its dump, nested models
\* included; an object of any other class cannot be written.
RECURSIVE serialize_response(_)
serialize_response(v) ==
    CASE v.t = "None" -> [j |-> "null"]
      [] v.t = "str" -> [j |-> "string", s |-> v.s]
      [] v.t = "int" -> [j |-> "number", n |-> v.n]
      [] v.t = "dict" ->
             [j |-> "object", d |-> [k \in DOMAIN v.d |-> serialize_response(v.d[k])]]
      [] v.t = "list" ->
             [j |-> "array",
              items |-> [i \in 1..Len(v.items) |-> serialize_response(v.items[i])]]
      [] v.t = "model" ->
             [j |-> "object",
              d |-> [k \in DOMAIN v.fields |-> serialize_response(v.fields[k])]]
      [] OTHER -> [j |-> "unserializable"]

\* What the client of /mcp/call gets when the handler returns an MCPResponse.
Http200(body) == [status |-> 200, body |-> body]
NoResponse == [status |-> 0]

\* Variant: the handler catches only what is not an HTTPException, which then
\* reaches the framework and sets the status of the response.
mcp_call_except_http_escapes(e) ==
    IF e.type = "HTTPException"
    THEN [status |-> e.status_code, body |-> MCPResponse(PyNone, PyNone)]
    ELSE Http200(MCPResponse(PyNone, ErrorObject(e)))

\* except Exception as e: every exception becomes an error envelope.
mcp_call_except(e) == Http200(MCPResponse(PyNone, ErrorObject(e)))

\* The end of mcp_call, given what the awaited adapter returned or raised.
mcp_call_finish(r) ==
    IF r.raised THEN mcp_call_except(r.exc)
    ELSE Http200(MCPResponse(r.value, PyNone))

\* ------------------------------------------------------- streaming endpoint
Event(type, data) == [type |-> type, data |-> data]

UUIDs == 1..NumUUIDs
\* Variant: the session identifier is made once, not per stream.
connected_event_fixed_id(uuid) ==
    Event("connected", ToJson(PyDict([session_id |-> PyStr(Lit(ToString(1)))])))

connected_event(uuid) ==
    Event("connected", ToJson(PyDict([session_id |-> PyStr(Lit(ToString(uuid)))])))
done_event == Event("done", ToJson(PyDict([status |-> PyStr(Lit("completed"))])))

\* Variant: generate() tests `tool_name is None` where the code tests
\* `not tool_name`.
generate_dispatch_name_is_none(request) ==
    IF request.method = TOOLS_CALL
    THEN LET params == Or(request.params, EmptyDict)
             tool_name == get(params, "name", PyNone)
         IN IF tool_name = PyNone
            THEN YieldError(ToJson(PyDict(
                     [error |-> PyStr(Lit("Missing name parameter in tools/call"))])))
            ELSE Call("call_tool", tool_name, get(params, "arguments", EmptyDict))
    ELSE _handle_method(request.method, request.params)

\* generate() from the resumption after "connected" to the next await, yield
\* or raise.
generate_dispatch(request) ==
    IF request.method = TOOLS_CALL
    THEN LET params == Or(request.params, EmptyDict)
             tool_name == get(params, "name", PyNone)
         IN IF ~Truthy(tool_name)
            THEN YieldError(ToJson(PyDict(
                     [error |-> PyStr(Lit("Missing name parameter in tools/call"))])))
            ELSE Call("call_tool", tool_name, get(params, "arguments", EmptyDict))
    ELSE _handle_method(request.method, request.params)

\* The conversion of a tools/call result before it is written to the stream.
serializable(result) ==
    IF hasattr(result, "__dict__") THEN __dict__(result)
    ELSE IF result.t = "list" /\ Len(result.items) > 0
    THEN PyList([i \in 1..Len(result.items) |->
             LET item == result.items[i] IN
             IF hasattr(item, "__dict__") THEN __dict__(item)
             ELSE IF hasattr(item, "model_dump") THEN model_dump(item)
             ELSE item])
    ELSE result

\* generate() from the value an adapter returned to the "result" yield, or to
\* the TypeError json.dumps raises for a value it cannot encode.
generate_result(request, result) ==
    IF request.method = TOOLS_CALL
    THEN Return(Event("result", ToJson(serializable(result))))
    ELSE IF Encodable(result)
         THEN Return(Event("result", ToJson(result)))
         ELSE Raise(TypeError(Lit("Object of type ") \o Lit(result.t)
                              \o Lit(" is not JSON serializable")))

\* except Exception as e: the error event.
generate_except(e) == Event("error", ToJson(PyDict([error |-> ErrorObject(e)])))

\* Where generate() goes when resumed after a yield: the event it yields next
\* (if any) and the new position.
Step(emit, at) == [emit |-> emit, pc |-> at]

\* Variant: the handler of generate() falls through to the completion event.
generate_resume_done_after_except(at) ==
    CASE at = "yield_result" -> Step(<<done_event>>, "yield_done")
      [] at = "yield_done" -> Step(<<>>, "stream_end")
      [] at = "yield_error_return" -> Step(<<>>, "stream_end")
      [] at = "yield_error_except" -> Step(<<done_event>>, "yield_done")

\* Variant: no return after the missing-name error event.
generate_resume_no_return(at) ==
    CASE at = "yield_result" -> Step(<<done_event>>, "yield_done")
      [] at = "yield_done" -> Step(<<>>, "stream_end")
      [] at = "yield_error_return" -> Step(<<done_event>>, "yield_done")
      [] at = "yield_error_except" -> Step(<<>>, "stream_end")

\* Variant: generate() ends after the result event without the completion
\* event.
generate_resume_no_done(at) ==
    CASE at = "yield_result" -> Step(<<>>, "stream_end")
      [] at = "yield_done" -> Step(<<>>, "stream_end")
      [] at = "yield_error_return" -> Step(<<>>, "stream_end")
      [] at = "yield_error_except" -> Step(<<>>, "stream_end")

generate_resume(at) ==
    CASE at = "yield_result" -> Step(<<done_event>>, "yield_done")
      [] at = "yield_done" -> Step(<<>>, "stream_end")
      [] at = "yield_error_return" -> Step(<<>>, "stream_end")
      [] at = "yield_error_except" -> Step(<<>>, "stream_end")

\* An asyncio.CancelledError / GeneratorExit thrown into generate().
Cancelled == [type |-> "CancelledError", msg |-> Lit("")]

\* Variant: the handler of generate() catches BaseException, so that the
\* cancellation is answered with an error event.
generate_close_caught(at) == Step(<<generate_except(Cancelled)>>, "cancelled")

\* What generate() does when it is closed or cancelled while suspended at a
\* yield or at the await: GeneratorExit and CancelledError are BaseException,
\* not Exception, so neither the except clause of generate() nor that of an
\* adapter runs and nothing more is yielded.
generate_close(at) == Step(<<>>, "cancelled")

\* ----------------------------------------------------------------- requests
Prefixes == {TOOLS_CALL, <<"resources", "read">>, <<"prompts", "get">>}
Tails == {<<"">>, <<"x">>}
\* Every string of up to MaxSegs segments, and the three prefixes, alone or
\* twice over, before a short tail.
Methods ==
    SeqsUpTo(Seg, MaxSegs)
    \cup {p \o f : p \in Prefixes, f \in Tails}
    \cup {p \o q \o f : p \in Prefixes, q \in Prefixes, f \in Tails}

SomeArguments == PyDict([k |-> PyInt(1)])
Params ==
    { PyNone, EmptyDict,
      PyDict([name |-> PyStr(<<"t1">>)]),
      PyDict([name |-> PyStr(<<"t1">>), arguments |-> SomeArguments]),
      PyDict([name |-> PyStr(<<"t1">>), arguments |-> PyNone]),
      PyDict([name |-> PyStr(<<"t1">>), extra |-> PyInt(1)]),
      PyDict([name |-> PyStr(<<"">>)]),
      PyDict([name |-> PyNone, arguments |-> SomeArguments]),
      PyDict([arguments |-> SomeArguments]) }

MCPRequest(method, params) == [method |-> method, params |-> params]
Requests == {MCPRequest(m, p) : m \in Methods, p \in Params}
NoRequest == MCPRequest(<<>>, PyNone)
NoOutcome == [ok |-> FALSE, exc |-> [type |-> "none"]]
NoAdapterOut == [raised |-> FALSE, value |-> [t |-> "none"]]

\* -------------------------------------------------------------------- state
VARIABLES
    endpoint,    \* the endpoint handling the current request: "none", "call", "stream"
    request,     \* the MCPRequest being handled
    pc,          \* where the handler (or the generator) is suspended
    pending,     \* the call into the core being awaited, or NoCall
    coreCalls,   \* the calls into the core made for the current request, in order
    outcome,     \* what the core answered to the awaited call
    adapterOut,  \* what the adapter returned or raised for it
    response,    \* the response of /mcp/call
    events       \* the events /mcp/stream has yielded, in order

\* The state of the handling of one request.
handler == <<endpoint, request, pc, pending, coreCalls, outcome, adapterOut, response, events>>

\* ------------------------------------------------------- the serving process
\* Requests in progress at once.
MaxTasks == 2
Tasks == 1..MaxTasks

VARIABLES
    phase,        \* lifespan of the app: "off", "created", "starting", "serving",
                  \* "stopped", "failed"
    initCalls,    \* how many times the core's initialize() has been invoked
    store,        \* the core's resources: what read_resource answers for each URI
    reads,        \* the texts of the latest reads of READ_XX since the core last changed
    issued,       \* the values uuid.uuid4() has returned
    tasks         \* the handler invocations in progress, each with its own locals

server == <<phase, initCalls, store, reads, issued, tasks>>

\* The resources of the core: the first holds a text that does not change, the
\* second holds one of two texts or cannot be read.
URI_X == <<"x">>
URI_XX == <<"x", "x">>
ServeURIs == {URI_X, URI_XX}
TextValue(text) == Returned([mimeType |-> PyNone, text |-> PyStr(<<text>>)])
Stores ==
    { [u \in ServeURIs |-> IF u = URI_X THEN a ELSE b] :
        a \in {TextValue("b")},
        b \in {TextValue("a"), TextValue("b"), Failed("NotFound", "Resource not found")} }

\* The requests the serving process is sent.
READ_X == <<"resources", "read", "x">>
READ_XX == <<"resources", "read", "x", "x">>
ServeRequests == {MCPRequest(m, PyNone) : m \in {READ_X, READ_XX, <<"x">>}}

\* A handler invocation: its endpoint, its request, where it is suspended, the
\* call it awaits and the events it has yielded.
Task(ep, req, at, call, evs) ==
    [ep |-> ep, request |-> req, pc |-> at, call |-> call, events |-> evs,
     response |-> NoResponse]
IdleTask == Task("none", NoRequest, "idle", NoCall, <<>>)
\* An invocation of health() that has returned.
HealthTask(resp) == [IdleTask EXCEPT !.ep = "health", !.pc = "responded", !.response = resp]
\* An invocation of mcp_call that has returned its envelope.
Answered(req, resp) ==
    [IdleTask EXCEPT !.ep = "call", !.request = req, !.pc = "responded", !.response = resp]
\* The invocations are told apart by their place in tasks; a new one takes the
\* first free place.
FreePlace(all, t) == all[t] = IdleTask /\ \A u \in 1..(t - 1) : all[u] # IdleTask
NoReads == <<>>

\* The serving process does not exist.
ServerOff ==
    /\ phase = "off"
    /\ initCalls = 0
    /\ store = [u \in ServeURIs |-> TextValue("b")]
    /\ reads = NoReads
    /\ issued = {}
    /\ tasks = [t \in Tasks |-> IdleTask]

\* ------------------------------------------------------ the pattern utility
\* In _matches_pattern and _extract_params a str is the sequence of its
\* characters.
\* Longest pattern and longest URI, in characters.
MaxPattern == 4
MaxUri == 2
Chars == {"a", "b"}
Braces == {"{", "}"}
StrsUpTo(S, n) == {<<>>} \cup SeqsUpTo(S, n)
Patterns == StrsUpTo(Chars \cup Braces, MaxPattern)
Uris == StrsUpTo(Chars, MaxUri)

\* c in s
contains(s, c) == \E i \in 1..Len(s) : s[i] = c
\* s.index(c), counted from 1; s holds c.
index(s, c) == CHOOSE i \in 1..Len(s) : s[i] = c /\ \A j \in 1..(i - 1) : s[j] # c
\* s[:i] and s[i:j] for Python's i, j counted from 0.
slice(s, i, j) == SubSeq(s, i + 1, j)
\* s.split(c)[0]
split_first(s, c) == IF contains(s, c) THEN slice(s, 0, index(s, c) - 1) ELSE s
\* uri.startswith(base), character by character.
uri_startswith(s, base) == Len(s) >= Len(base) /\ SubSeq(s, 1, Len(base)) = base

\* Variant: a template matches only a URI that goes on after the fixed prefix.
_matches_pattern_needs_value(uri, pattern) ==
    IF contains(pattern, "{")
    THEN LET base_pattern == split_first(pattern, "{")
         IN uri_startswith(uri, base_pattern) /\ Len(uri) > Len(base_pattern)
    ELSE uri = pattern

_matches_pattern(uri, pattern) ==
    IF contains(pattern, "{")
    THEN LET base_pattern == split_first(pattern, "{")
         IN uri_startswith(uri, base_pattern)
    ELSE uri = pattern

\* The mapping _extract_params returns: no parameter, or one.
NoParams == [name \in {} |-> <<>>]
OneParam(param_name, param_value) == [name \in {param_name} |-> param_value]

\* pattern.index("}") raises ValueError when the pattern holds "{" and no "}".
_extract_params(uri, pattern) ==
    IF contains(pattern, "{")
    THEN IF ~contains(pattern, "}") THEN Raise(ValueError(Lit("substring not found")))
         ELSE LET param_start == index(pattern, "{") - 1
                  param_end == index(pattern, "}") - 1
                  param_name == slice(pattern, param_start + 1, param_end)
                  base_pattern == slice(pattern, 0, param_start)
              IN IF uri_startswith(uri, base_pattern)
                 THEN Return(OneParam(param_name, slice(uri, Len(base_pattern), Len(uri))))
                 ELSE Return(NoParams)
    ELSE Return(NoParams)

VARIABLES
    call_uri,      \* the uri the utility is called with
    call_pattern,  \* the pattern it is called with
    matches,       \* what _matches_pattern returned, once called
    extracted      \* what _extract_params returned or raised

matcher == <<call_uri, call_pattern, matches, extracted>>
\* Not called yet; the bool _matches_pattern returned.
NotCalled == [called |-> FALSE]
Matched(bool) == [called |-> TRUE, value |-> bool]

\* The utility has no caller.
MatcherOff ==
    /\ call_uri = <<>>
    /\ call_pattern = <<>>
    /\ matches = NotCalled
    /\ extracted = NotCalled

\* ------------------------------------------- the command line and TLS files
\* --host values, and the values --ssl-cert / --ssl-key can have: not given,
\* given empty, given.
Hosts == {"127.0.0.1", "example"}
PathArgs(path) == {PyNone, PyStr(<<"">>), PyStr(<<path>>)}
\* argparse's Namespace for the options main() reads.
Argvs ==
    [mode : {"stdio", "http"}, host : Hosts, ssl : BOOLEAN,
     ssl_cert : PathArgs("c.pem"), ssl_key : PathArgs("k.pem"), ssl_generate : BOOLEAN]
NoArgv ==
    [mode |-> "none", host |-> "none", ssl |-> FALSE, ssl_cert |-> PyNone,
     ssl_key |-> PyNone, ssl_generate |-> FALSE]

\* Path.cwd() / ".certs" / f"{hostname}.crt" and .key, as str.
cert_path(hostname) == <<".certs", hostname \o ".crt">>
key_path(hostname) == <<".certs", hostname \o ".key">>
CertPaths == {cert_path(h) : h \in Hosts} \cup {key_path(h) : h \in Hosts}
\* What a file holds: nothing (it does not exist), what was there before the
\* first run, or the n-th pair generated since.
Absent == 0
Preexisting == 1
exists(fs, path) == fs[path] # Absent

ImportError(msg) == [type |-> "ImportError", msg |-> msg]
\* What a call of generate_self_signed_cert comes to: the value returned or the
\* exception raised, and the files it leaves.
CertOutcome(result, fs) == [result |-> result, files |-> fs]

\* Variant: the pair is generated anew whether or not one exists.
generate_self_signed_cert_always_new(hostname, fs, installed, fresh) ==
    IF ~installed
    THEN CertOutcome(Raise(ImportError(
             Lit("cryptography package required for SSL certificate generation"))), fs)
    ELSE CertOutcome(Return(<<cert_path(hostname), key_path(hostname)>>),
                     [fs EXCEPT ![key_path(hostname)] = fresh,
                                ![cert_path(hostname)] = fresh])

\* generate_self_signed_cert(hostname) with the default cert_dir.  installed:
\* whether the cryptography package can be imported; fresh: the key pair
\* rsa.generate_private_key would make.
generate_self_signed_cert(hostname, fs, installed, fresh) ==
    IF ~installed
    THEN CertOutcome(Raise(ImportError(
             Lit("cryptography package required for SSL certificate generation"))), fs)
    ELSE IF exists(fs, cert_path(hostname)) /\ exists(fs, key_path(hostname))
    THEN CertOutcome(Return(<<cert_path(hostname), key_path(hostname)>>), fs)
    ELSE CertOutcome(Return(<<cert_path(hostname), key_path(hostname)>>),
                     [fs EXCEPT ![key_path(hostname)] = fresh,
                                ![cert_path(hostname)] = fresh])

\* sys.exit(status), or how the lines of main() before its try come to an end
\* otherwise: a value for ssl_config, or an exception nothing catches.
Exit(status) == [act |-> "exit", status |-> status]
Configured(ssl_config) == [act |-> "go", ssl_config |-> ssl_config]
Uncaught(e) == [act |-> "uncaught", exc |-> e]
SslConfig(cert, key) == PyDict([cert |-> cert, key |-> key])

\* main(), lines 68-87: the ssl_config of the http mode, given what
\* generate_self_signed_cert(args.host) comes to if it is called.
main_ssl_config(args, cert) ==
    IF args.ssl \/ Truthy(args.ssl_cert) \/ Truthy(args.ssl_key) \/ args.ssl_generate
    THEN IF args.ssl_generate /\ ~(Truthy(args.ssl_cert) /\ Truthy(args.ssl_key))
         THEN IF cert.result.raised THEN Uncaught(cert.result.exc)
              ELSE Configured(SslConfig(PyStr(cert.result.value[1]),
                                        PyStr(cert.result.value[2])))
         ELSE IF Truthy(args.ssl_cert) /\ Truthy(args.ssl_key)
         THEN Configured(SslConfig(args.ssl_cert, args.ssl_key))
         ELSE Exit(1)
    ELSE Configured(PyNone)
\* Whether main() calls generate_self_signed_cert.
main_generates(args) ==
    /\ args.mode = "http"
    /\ args.ssl \/ Truthy(args.ssl_cert) \/ Truthy(args.ssl_key) \/ args.ssl_generate
    /\ args.ssl_generate /\ ~(Truthy(args.ssl_cert) /\ Truthy(args.ssl_key))

\* HTTPMCPServer.__init__: what the gateway keeps.
HTTP_PORT == 8080
HTTPMCPServer(mcp_server, host, port, ssl_config) ==
    [mcp_server |-> mcp_server, host |-> host, port |-> port, ssl_config |-> ssl_config]
create_http_server(host, port, ssl_config) ==
    HTTPMCPServer("ZammadMCPServer", host, port, ssl_config)
NoServer == [mcp_server |-> "none"]
\* HTTPMCPServer.run: the listener uvicorn.run is asked for.
run(http_server) == IF Truthy(http_server.ssl_config) THEN "https" ELSE "http"

VARIABLES
    argv,          \* the parsed command line of the process
    cli_pc,        \* "off", "parsed", "http", "https", "stdio", "exited"
    self,          \* the HTTPMCPServer the process has created
    exit_status,   \* the status the process ended with, -1 while it has not
    stdio_runs,    \* how many times the process has called mcp.run()
    files,         \* what each file of the certificate directory holds
    cryptography,  \* whether the cryptography package can be imported
    serial,        \* the last key pair generated
    cert_result    \* what generate_self_signed_cert returned or raised in this process

cli == <<argv, cli_pc, self, exit_status, stdio_runs, files, cryptography, serial, cert_result>>
Running == -1

\* No process has been started.
CliOff ==
    /\ argv = NoArgv
    /\ cli_pc = "off"
    /\ self = NoServer
    /\ exit_status = Running
    /\ stdio_runs = 0
    /\ files = [p \in CertPaths |-> Absent]
    /\ cryptography = TRUE
    /\ serial = Preexisting
    /\ cert_result = NotCalled

\* The command line of the process whose requests are followed: HTTPS with a
\* certificate and a key.
ServedArgv ==
    [mode |-> "http", host |-> "127.0.0.1", ssl |-> FALSE, ssl_cert |-> PyStr(<<"c.pem">>),
     ssl_key |-> PyStr(<<"k.pem">>), ssl_generate |-> FALSE]
\* main() has created the server and called its run().
Created ==
    /\ argv = ServedArgv
    /\ self = create_http_server(argv.host, HTTP_PORT,
                                 main_ssl_config(argv, NotCalled).ssl_config)
    /\ cli_pc = run(self)
    /\ exit_status = Running
    /\ stdio_runs = 0
    /\ files = [p \in CertPaths |-> Absent]
    /\ cryptography = TRUE
    /\ serial = Preexisting
    /\ cert_result = NotCalled

\* What is outside the handling of requests.
glue == <<matcher, cli>>
GlueOff == MatcherOff /\ CliOff

vars == <<endpoint, request, pc, pending, coreCalls, outcome, adapterOut, response, events,
          phase, initCalls, store, reads, issued, tasks,
          call_uri, call_pattern, matches, extracted,
          argv, cli_pc, self, exit_status, stdio_runs, files, cryptography, serial,
          cert_result>>

Init ==
    /\ endpoint = "none"
    /\ request = NoRequest
    /\ pc = "idle"
    /\ pending = NoCall
    /\ coreCalls = <<>>
    /\ outcome = NoOutcome
    /\ adapterOut = NoAdapterOut
    /\ response = NoResponse
    /\ events = <<>>
    /\ ServerOff
    /\ GlueOff

\* No request is being handled.
Quiescent == pc = "idle"

\* POST /mcp/call arrives: mcp_call runs to its first await, or to its end.
CallRequest ==
    /\ Quiescent
    /\ endpoint' = "call"
    /\ \E req \in Requests : request' = req
    /\ outcome' = NoOutcome
    /\ adapterOut' = NoAdapterOut
    /\ events' = <<>>
    /\ LET d == mcp_call_dispatch(request') IN
       IF d.act = "call"
       THEN /\ pc' = "call_await"
            /\ pending' = d
            /\ coreCalls' = <<d>>
            /\ response' = NoResponse
       ELSE /\ pc' = "responded"
            /\ pending' = NoCall
            /\ coreCalls' = <<>>
            /\ response' = mcp_call_except(d.exc)
    /\ UNCHANGED server
    /\ UNCHANGED glue

\* The awaited core call of mcp_call completes: the adapter and the rest of
\* mcp_call run.
CallCoreReturns ==
    /\ pc = "call_await"
    /\ \E o \in CoreOutcomes(pending.op) : outcome' = o
    /\ adapterOut' = Adapter(pending, outcome')
    /\ response' = mcp_call_finish(adapterOut')
    /\ pc' = "responded"
    /\ pending' = NoCall
    /\ UNCHANGED <<endpoint, request, coreCalls, events>>
    /\ UNCHANGED server
    /\ UNCHANGED glue

\* POST /mcp/stream arrives: generate() runs to its first yield.
StreamRequest ==
    /\ Quiescent
    /\ endpoint' = "stream"
    /\ \E req \in Requests : request' = req
    /\ outcome' = NoOutcome
    /\ adapterOut' = NoAdapterOut
    /\ response' = NoResponse
    /\ pending' = NoCall
    /\ coreCalls' = <<>>
    /\ \E uuid \in UUIDs : events' = <<connected_event(uuid)>>
    /\ pc' = "yield_connected"
    /\ UNCHANGED server
    /\ UNCHANGED glue

\* generate() is resumed after "connected" and runs to its next await or yield.
StreamDispatch ==
    /\ pc = "yield_connected"
    /\ LET d == generate_dispatch(request) IN
       CASE d.act = "call" ->
                /\ pc' = "stream_await"
                /\ pending' = d
                /\ coreCalls' = Append(coreCalls, d)
                /\ events' = events
         [] d.act = "yield_error" ->
                /\ pc' = "yield_error_return"
                /\ events' = Append(events, Event("error", d.data))
                /\ UNCHANGED <<pending, coreCalls>>
         [] d.act = "raise" ->
                /\ pc' = "yield_error_except"
                /\ events' = Append(events, generate_except(d.exc))
                /\ UNCHANGED <<pending, coreCalls>>
    /\ UNCHANGED <<endpoint, request, outcome, adapterOut, response>>
    /\ UNCHANGED server
    /\ UNCHANGED glue

\* The awaited core call of generate() completes: the adapter runs and
\* generate() continues to its next yield.
StreamCoreReturns ==
    /\ pc = "stream_await"
    /\ \E o \in CoreOutcomes(pending.op) : outcome' = o
    /\ adapterOut' = Adapter(pending, outcome')
    /\ pending' = NoCall
    /\ LET r == adapterOut'
           g == generate_result(request, r.value)
       IN IF r.raised
          THEN /\ events' = Append(events, generate_except(r.exc))
               /\ pc' = "yield_error_except"
          ELSE IF g.raised
          THEN /\ events' = Append(events, generate_except(g.exc))
               /\ pc' = "yield_error_except"
          ELSE /\ events' = Append(events, g.value)
               /\ pc' = "yield_result"
    /\ UNCHANGED <<endpoint, request, coreCalls, response>>
    /\ UNCHANGED server
    /\ UNCHANGED glue

\* generate() is resumed after "result", "done" or "error".
StreamResume ==
    /\ pc \in {"yield_result", "yield_done", "yield_error_return", "yield_error_except"}
    /\ LET st == generate_resume(pc) IN
       /\ events' = events \o st.emit
       /\ pc' = st.pc
    /\ UNCHANGED <<endpoint, request, pending, coreCalls, outcome, adapterOut, response>>
    /\ UNCHANGED server
    /\ UNCHANGED glue

\* The client goes away while generate() is suspended: the generator is
\* closed (GeneratorExit) or its task cancelled (CancelledError); neither is
\* an Exception, so no handler of generate() or of an adapter runs.
ClientDisconnect ==
    /\ pc \in {"yield_connected", "stream_await", "yield_result", "yield_done",
               "yield_error_return", "yield_error_except"}
    /\ LET st == generate_close(pc) IN
       /\ events' = events \o st.emit
       /\ pc' = st.pc
    /\ pending' = NoCall
    /\ UNCHANGED <<endpoint, request, coreCalls, outcome, adapterOut, response>>
    /\ UNCHANGED server
    /\ UNCHANGED glue

\* The response has been sent, or the stream closed: everything built for the
\* request is discarded.
Discard ==
    /\ pc \in {"responded", "stream_end", "cancelled"}
    /\ endpoint' = "none"
    /\ request' = NoRequest
    /\ pc' = "idle"
    /\ pending' = NoCall
    /\ coreCalls' = <<>>
    /\ outcome' = NoOutcome
    /\ adapterOut' = NoAdapterOut
    /\ response' = NoResponse
    /\ events' = <<>>
    /\ UNCHANGED server
    /\ UNCHANGED glue

Next ==
    \/ CallRequest
    \/ CallCoreReturns
    \/ StreamRequest
    \/ StreamDispatch
    \/ StreamCoreReturns
    \/ StreamResume
    \/ ClientDisconnect
    \/ Discard

Spec == Init /\ [][Next]_vars

\* The event loop resumes generate() whenever the client has taken the event
\* it yielded, and the awaited call into the core eventually returns or fails.
LiveSpec ==
    /\ Spec
    /\ WF_vars(StreamDispatch)
    /\ WF_vars(StreamCoreReturns)
    /\ WF_vars(StreamResume)

\* ------------------------------------------- the serving process: operations
\* uuid.uuid4(): a value it has not returned before.  The values are told apart
\* only by equality, so the least unused one stands for any of them.
uuid4(used) == {u \in UUIDs \ used : \A v \in UUIDs \ used : u <= v}

\* Variant: health() reports whether the core can read its resource.
health_probes_core ==
    IF store[URI_XX].ok THEN Http200(PyDict([status |-> PyStr(Lit("healthy"))]))
    ELSE [status |-> 503, body |-> PyDict([status |-> PyStr(Lit("unhealthy"))])]

\* GET /health.
health == Http200(PyDict([status |-> PyStr(Lit("healthy"))]))

\* Variant: lifespan starts initialize() without awaiting it, so that the app
\* serves while the core is still initializing.
lifespan_yielded_without_await == phase \in {"starting", "serving"}

\* lifespan has reached its yield, which it does once `await
\* self.mcp_server.initialize()` has returned: from then on the app serves.
lifespan_yielded == phase = "serving"

\* What the core answers to a call, given the resources it holds.
CoreAnswer(resources, call) ==
    IF call.op = "read_resource" /\ call.target.s \in DOMAIN resources
    THEN resources[call.target.s]
    ELSE Failed("NotFound", "Resource not found")

\* Variant: the gateway keeps a registry of the sessions it has opened, and
\* once it holds one it answers /mcp/call with an error.
mcp_call_resumed_session_registry(call, resources) ==
    IF issued # {}
    THEN mcp_call_except(ValueError(Lit("session open")))
    ELSE mcp_call_finish(Adapter(call, CoreAnswer(resources, call)))

\* mcp_call from its await to its return, given the resources the core holds
\* when it answers.
mcp_call_resumed(call, resources) ==
    mcp_call_finish(Adapter(call, CoreAnswer(resources, call)))

\* contents[0].text of a read result, as delivered.
DeliveredText(result) == result.d.contents.items[1].d.text.s
\* The latest two texts read for READ_XX, after one more read.
Remember(rs, method, text) ==
    IF method # READ_XX THEN rs
    ELSE IF Len(rs) < 2 THEN Append(rs, text) ELSE <<rs[2], text>>

ServeInit ==
    /\ endpoint = "none"
    /\ request = NoRequest
    /\ pc = "idle"
    /\ pending = NoCall
    /\ coreCalls = <<>>
    /\ outcome = NoOutcome
    /\ adapterOut = NoAdapterOut
    /\ response = NoResponse
    /\ events = <<>>
    /\ phase = "created"
    /\ initCalls = 0
    /\ store \in Stores
    /\ reads = NoReads
    /\ issued = {}
    /\ tasks = [t \in Tasks |-> IdleTask]
    /\ MatcherOff
    /\ Created

\* run(): the server enters lifespan, which invokes initialize().
Startup ==
    /\ phase = "created"
    /\ phase' = "starting"
    /\ initCalls' = initCalls + 1
    /\ UNCHANGED <<store, reads, issued, tasks>>
    /\ UNCHANGED handler
    /\ UNCHANGED glue

\* initialize() returns: lifespan yields and the server starts to accept.
InitializeReturns ==
    /\ phase = "starting"
    /\ phase' = "serving"
    /\ UNCHANGED <<initCalls, store, reads, issued, tasks>>
    /\ UNCHANGED handler
    /\ UNCHANGED glue

\* initialize() raises: lifespan never yields and the server exits.
InitializeFails ==
    /\ phase = "starting"
    /\ phase' = "failed"
    /\ UNCHANGED <<initCalls, store, reads, issued, tasks>>
    /\ UNCHANGED handler
    /\ UNCHANGED glue

\* The server is stopped: once no request is in progress, lifespan is resumed
\* after its yield.
Shutdown ==
    /\ phase = "serving"
    /\ \A t \in Tasks : tasks[t] = IdleTask
    /\ phase' = "stopped"
    /\ UNCHANGED <<initCalls, store, reads, issued, tasks>>
    /\ UNCHANGED handler
    /\ UNCHANGED glue

\* GET /health arrives and health() returns.
HealthArrives(t) ==
    /\ lifespan_yielded
    /\ FreePlace(tasks, t)
    /\ tasks' = [tasks EXCEPT ![t] = HealthTask(health)]
    /\ UNCHANGED <<phase, initCalls, store, reads, issued>>
    /\ UNCHANGED handler
    /\ UNCHANGED glue

\* The response of health() has been sent.
HealthSent(t) ==
    /\ tasks[t].ep = "health"
    /\ tasks' = [tasks EXCEPT ![t] = IdleTask]
    /\ UNCHANGED <<phase, initCalls, store, reads, issued>>
    /\ UNCHANGED handler
    /\ UNCHANGED glue

\* The resources of the core change, by something other than the gateway.
CoreMutates ==
    /\ phase = "serving"
    /\ \E changed \in Stores :
          /\ Cardinality({u \in ServeURIs : changed[u] # store[u]}) = 1
          /\ store' = changed
    /\ reads' = NoReads
    /\ UNCHANGED <<phase, initCalls, issued, tasks>>
    /\ UNCHANGED handler
    /\ UNCHANGED glue

\* POST /mcp/call arrives: mcp_call runs to its await, or answers at once.
UnaryArrives(t) ==
    /\ lifespan_yielded
    /\ FreePlace(tasks, t)
    /\ \E req \in ServeRequests :
          LET d == mcp_call_dispatch(req) IN
          tasks' = IF d.act = "call"
                   THEN [tasks EXCEPT ![t] = Task("call", req, "call_await", d, <<>>)]
                   ELSE [tasks EXCEPT ![t] = Answered(req, mcp_call_except(d.exc))]
    /\ UNCHANGED <<phase, initCalls, store, reads, issued>>
    /\ UNCHANGED handler
    /\ UNCHANGED glue

\* The core answers the call mcp_call awaits: the envelope is returned.
UnaryCoreAnswers(t) ==
    /\ tasks[t].pc = "call_await"
    /\ LET call == tasks[t].call
           r == mcp_call_resumed(call, store)
       IN /\ reads' = IF r.body.error = PyNone
                      THEN Remember(reads, tasks[t].request.method,
                                    DeliveredText(r.body.result))
                      ELSE reads
          /\ tasks' = [tasks EXCEPT ![t] = Answered(tasks[t].request, r)]
    /\ UNCHANGED <<phase, initCalls, store, issued>>
    /\ UNCHANGED handler
    /\ UNCHANGED glue

\* The envelope of mcp_call has been sent: what was built for the request is
\* discarded.
UnarySent(t) ==
    /\ tasks[t].ep = "call" /\ tasks[t].pc = "responded"
    /\ tasks' = [tasks EXCEPT ![t] = IdleTask]
    /\ UNCHANGED <<phase, initCalls, store, reads, issued>>
    /\ UNCHANGED handler
    /\ UNCHANGED glue

\* POST /mcp/stream arrives: generate() runs to its first yield.
StreamArrives(t) ==
    /\ lifespan_yielded
    /\ FreePlace(tasks, t)
    /\ \E req \in ServeRequests, uuid \in uuid4(issued) :
          /\ tasks' = [tasks EXCEPT ![t] =
                          Task("stream", req, "yield_connected", NoCall,
                               <<connected_event(uuid)>>)]
          /\ issued' = issued \cup {uuid}
    /\ UNCHANGED <<phase, initCalls, store, reads>>
    /\ UNCHANGED handler
    /\ UNCHANGED glue

\* generate() is resumed after "connected".
StreamDispatches(t) ==
    /\ tasks[t].pc = "yield_connected"
    /\ LET task == tasks[t]
           d == generate_dispatch(task.request)
       IN tasks' = [tasks EXCEPT ![t] =
              CASE d.act = "call" ->
                       Task("stream", task.request, "stream_await", d, task.events)
                [] d.act = "yield_error" ->
                       Task("stream", task.request, "yield_error_return", NoCall,
                            Append(task.events, Event("error", d.data)))
                [] d.act = "raise" ->
                       Task("stream", task.request, "yield_error_except", NoCall,
                            Append(task.events, generate_except(d.exc)))]
    /\ UNCHANGED <<phase, initCalls, store, reads, issued>>
    /\ UNCHANGED handler
    /\ UNCHANGED glue

\* The core answers the call generate() awaits: generate() runs to its next
\* yield.
StreamCoreAnswers(t) ==
    /\ tasks[t].pc = "stream_await"
    /\ LET task == tasks[t]
           r == Adapter(task.call, CoreAnswer(store, task.call))
           g == generate_result(task.request, r.value)
       IN IF r.raised
          THEN /\ tasks' = [tasks EXCEPT ![t] =
                    Task("stream", task.request, "yield_error_except", NoCall,
                         Append(task.events, generate_except(r.exc)))]
               /\ reads' = reads
          ELSE IF g.raised
          THEN /\ tasks' = [tasks EXCEPT ![t] =
                    Task("stream", task.request, "yield_error_except", NoCall,
                         Append(task.events, generate_except(g.exc)))]
               /\ reads' = reads
          ELSE /\ tasks' = [tasks EXCEPT ![t] =
                    Task("stream", task.request, "yield_result", NoCall,
                         Append(task.events, g.value))]
               /\ reads' = Remember(reads, task.request.method,
                                    DeliveredText(g.value.data))
    /\ UNCHANGED <<phase, initCalls, store, issued>>
    /\ UNCHANGED handler
    /\ UNCHANGED glue

\* generate() is resumed after "result", "done" or "error"; at its end the
\* invocation is over.
StreamResumes(t) ==
    /\ tasks[t].pc \in {"yield_result", "yield_done", "yield_error_return",
                        "yield_error_except"}
    /\ LET task == tasks[t]
           st == generate_resume(task.pc)
       IN tasks' = [tasks EXCEPT ![t] =
              IF st.pc = "stream_end" THEN IdleTask
              ELSE Task("stream", task.request, st.pc, NoCall, task.events \o st.emit)]
    /\ UNCHANGED <<phase, initCalls, store, reads, issued>>
    /\ UNCHANGED handler
    /\ UNCHANGED glue

\* The client of a stream goes away: generate() is closed and yields nothing.
StreamDisconnects(t) ==
    /\ tasks[t].ep = "stream"
    /\ generate_close(tasks[t].pc).emit = <<>>
    /\ tasks' = [tasks EXCEPT ![t] = IdleTask]
    /\ UNCHANGED <<phase, initCalls, store, reads, issued>>
    /\ UNCHANGED handler
    /\ UNCHANGED glue

ServeNext ==
    \/ Startup
    \/ InitializeReturns
    \/ InitializeFails
    \/ Shutdown
    \/ CoreMutates
    \/ \E t \in Tasks :
          \/ HealthArrives(t)
          \/ HealthSent(t)
          \/ UnaryArrives(t)
          \/ UnaryCoreAnswers(t)
          \/ UnarySent(t)
          \/ StreamArrives(t)
          \/ StreamDispatches(t)
          \/ StreamCoreAnswers(t)
          \/ StreamResumes(t)
          \/ StreamDisconnects(t)

ServeSpec == ServeInit /\ [][ServeNext]_vars

\* --------------------------------------------- the pattern utility: its calls
\* No request is being handled.
HandlerOff ==
    /\ endpoint = "none"
    /\ request = NoRequest
    /\ pc = "idle"
    /\ pending = NoCall
    /\ coreCalls = <<>>
    /\ outcome = NoOutcome
    /\ adapterOut = NoAdapterOut
    /\ response = NoResponse
    /\ events = <<>>

\* A caller holds a URI and a pattern.
MatchInit ==
    /\ HandlerOff
    /\ ServerOff
    /\ call_uri \in Uris
    /\ call_pattern \in Patterns
    /\ matches = NotCalled
    /\ extracted = NotCalled
    /\ CliOff

MatchesPattern ==
    /\ matches = NotCalled
    /\ matches' = Matched(_matches_pattern(call_uri, call_pattern))
    /\ UNCHANGED <<call_uri, call_pattern, extracted>>
    /\ UNCHANGED <<handler, server, cli>>

ExtractParams ==
    /\ extracted = NotCalled
    /\ extracted' = _extract_params(call_uri, call_pattern)
    /\ UNCHANGED <<call_uri, call_pattern, matches>>
    /\ UNCHANGED <<handler, server, cli>>

MatchNext ==
    \/ MatchesPattern
    \/ ExtractParams

MatchSpec == MatchInit /\ [][MatchNext]_vars

\* ------------------------------------------------- the command line: its runs
\* The certificate directory holds what earlier runs or the user left there.
CliInit ==
    /\ HandlerOff
    /\ ServerOff
    /\ MatcherOff
    /\ argv = NoArgv
    /\ cli_pc = "off"
    /\ self = NoServer
    /\ exit_status = Running
    /\ stdio_runs = 0
    /\ files \in [CertPaths -> {Absent, Preexisting}]
    /\ cryptography \in BOOLEAN
    /\ serial = Preexisting
    /\ cert_result = NotCalled

\* The program is started: parser.parse_args().
Launch ==
    /\ cli_pc \in {"off", "exited"}
    /\ \E args \in Argvs : argv' = args
    /\ cli_pc' = "parsed"
    /\ self' = NoServer
    /\ exit_status' = Running
    /\ stdio_runs' = 0
    /\ cert_result' = NotCalled
    /\ UNCHANGED <<files, cryptography, serial>>
    /\ UNCHANGED <<handler, server, matcher>>

\* main() from the parsed arguments to the call that serves (http_server.run()
\* or mcp.run()) or to the end of the process.  An exception nothing catches
\* ends the process with status 1; create_http_server may raise, which main()
\* answers with sys.exit(1).
Main ==
    /\ cli_pc = "parsed"
    /\ IF argv.mode = "http"
       THEN LET cert == generate_self_signed_cert(argv.host, files, cryptography, serial + 1)
                config == main_ssl_config(argv, cert)
            IN /\ IF main_generates(argv)
                  THEN /\ files' = cert.files
                       /\ serial' = IF cert.files # files THEN serial + 1 ELSE serial
                       /\ cert_result' = cert.result
                  ELSE UNCHANGED <<files, serial, cert_result>>
               /\ CASE config.act = "exit" ->
                          /\ exit_status' = config.status
                          /\ cli_pc' = "exited"
                          /\ self' = NoServer
                    [] config.act = "uncaught" ->
                          /\ exit_status' = 1
                          /\ cli_pc' = "exited"
                          /\ self' = NoServer
                    [] config.act = "go" ->
                          \E created \in BOOLEAN :
                             IF created
                             THEN /\ self' = create_http_server(argv.host, HTTP_PORT,
                                                                config.ssl_config)
                                  /\ cli_pc' = run(self')
                                  /\ exit_status' = Running
                             ELSE /\ self' = NoServer
                                  /\ cli_pc' = "exited"
                                  /\ exit_status' = 1
               /\ stdio_runs' = stdio_runs
       ELSE /\ stdio_runs' = stdio_runs + 1
            /\ cli_pc' = "stdio"
            /\ UNCHANGED <<self, exit_status, files, serial, cert_result>>
    /\ UNCHANGED <<argv, cryptography>>
    /\ UNCHANGED <<handler, server, matcher>>

\* http_server.run() or mcp.run() comes to an end: KeyboardInterrupt or a
\* return (status 0), or an exception (status 1).
Stops ==
    /\ cli_pc \in {"http", "https", "stdio"}
    /\ \E status \in {0, 1} : exit_status' = status
    /\ cli_pc' = "exited"
    /\ UNCHANGED <<argv, self, stdio_runs, files, cryptography, serial, cert_result>>
    /\ UNCHANGED <<handler, server, matcher>>

CliNext ==
    \/ Launch
    \/ Main
    \/ Stops

CliSpec == CliInit /\ [][CliNext]_vars

\* =================================================================== claims
\* Vocabulary of the properties below.
Types == [i \in 1..Len(events) |-> events[i].type]
CountOf(T) == Cardinality({i \in 1..Len(events) : events[i].type \in T})
Terminal == {"done", "error"}
HasToken(text, token) == \E i \in 1..Len(text) : text[i] = token
IsSuffix(tail, text) ==
    /\ Len(tail) <= Len(text)
    /\ SubSeq(text, Len(text) - Len(tail) + 1, Len(text)) = tail
OccursIn(prefix, s) == \E i \in 1..Len(s) : startswith(SubSeq(s, i, Len(s)), prefix)

\* The request is the literal tools/call and its params have no key "name".
LacksName ==
    /\ request.method = TOOLS_CALL
    /\ request.params = PyNone \/ "name" \notin DOMAIN request.params.d
\* The core has answered the awaited call with a failure.
CoreFailed == ~outcome.ok /\ outcome.exc.type = "CoreError"
\* The handler has gone through its routing.
Dispatched ==
    pc \in {"call_await", "responded", "stream_await", "yield_result", "yield_done",
            "yield_error_return", "yield_error_except", "stream_end"}
Responded == endpoint = "call" /\ pc = "responded"
\* The text of the error the client has received, on either endpoint.
ErrorText ==
    IF endpoint = "call" THEN response.body.error.d.message.s
    ELSE events[Len(events)].data.d.error.d.message.s
ErrorReported ==
    IF endpoint = "call"
    THEN pc = "responded" /\ response.body.error # PyNone
    ELSE /\ pc \in {"yield_error_return", "yield_error_except", "stream_end"}
         /\ events[Len(events)].type = "error"

\* C1: the events of a stream begin with exactly one "connected", hold at
\* most one "result" and at most one terminal event ("done" or "error"),
\* nothing follows the terminal event, and a stream that generate() has run to
\* its end ends with a terminal event.
C1_StreamShape ==
    endpoint = "stream" =>
        /\ Len(events) >= 1
        /\ events[1].type = "connected"
        /\ CountOf({"connected"}) = 1
        /\ CountOf({"result"}) <= 1
        /\ CountOf(Terminal) <= 1
        /\ \A i \in 1..Len(events) : events[i].type \in Terminal => i = Len(events)
        /\ pc = "stream_end" => events[Len(events)].type \in Terminal
C1_Witness ==
    endpoint = "stream" /\ pc = "stream_end" /\ Types = <<"connected", "result", "done">>

\* C2: a stream whose tools/call lacks "name", or whose core call failed,
\* never holds a "result" or a "done" event and, run to its end, is exactly
\* connected, error; when "name" is lacking the core is never called.
C2_ErrorStream ==
    (endpoint = "stream" /\ (LacksName \/ CoreFailed)) =>
        /\ CountOf({"result", "done"}) = 0
        /\ LacksName => coreCalls = <<>>
        /\ pc = "stream_end" => Types = <<"connected", "error">>
C2_Witness ==
    /\ endpoint = "stream" /\ pc = "stream_end" /\ LacksName
    /\ Types = <<"connected", "error">>

\* C3: every envelope /mcp/call answers with has exactly one of result and
\* error present (not null).
C3_ExactlyOne ==
    Responded => ((response.body.result # PyNone) # (response.body.error # PyNone))

\* C4: /mcp/call with tools/call and no "name" answers HTTP 400 and does not
\* call the core.
C4_MissingName400 ==
    (Responded /\ LacksName) => (response.status = 400 /\ coreCalls = <<>>)

\* C5: for an unknown method and for a failed core call, /mcp/call answers
\* HTTP 200 with result absent and an error whose message is the failure's
\* text: "Method not found: <method>" after the status of the exception for
\* an unknown method, the core's own message last for a failed call.
UnknownUnary ==
    /\ request.method \notin {TOOLS_LIST, RESOURCES_LIST, PROMPTS_LIST, TOOLS_CALL}
    /\ ~startswith(request.method, RESOURCES_READ_PREFIX)
    /\ ~startswith(request.method, PROMPTS_GET_PREFIX)
C5_NoEscape ==
    (Responded /\ (UnknownUnary \/ CoreFailed)) =>
        /\ response.status = 200
        /\ response.body.result = PyNone
        /\ response.body.error # PyNone
        /\ UnknownUnary =>
              /\ HasToken(ErrorText, "Method not found: ")
              /\ IsSuffix(request.method, ErrorText)
        /\ CoreFailed => IsSuffix(outcome.exc.msg, ErrorText)
C5_Witness ==
    /\ Responded /\ request.method = <<"x", "x">>
    /\ response.status = 200
    /\ HasToken(ErrorText, "Method not found: ")

\* The routing table the claims state: the fixed set and its capabilities.
InFixedSet(method) ==
    \/ method \in {TOOLS_LIST, RESOURCES_LIST, PROMPTS_LIST, TOOLS_CALL}
    \/ startswith(method, RESOURCES_READ_PREFIX)
    \/ startswith(method, PROMPTS_GET_PREFIX)
TableOp(method) ==
    CASE method = TOOLS_LIST -> "list_tools"
      [] method = RESOURCES_LIST -> "list_resources"
      [] method = PROMPTS_LIST -> "list_prompts"
      [] method = TOOLS_CALL -> "call_tool"
      [] startswith(method, RESOURCES_READ_PREFIX) -> "read_resource"
      [] startswith(method, PROMPTS_GET_PREFIX) -> "get_prompt"
\* The params of the request carry a non-empty "name".
HasName ==
    /\ request.params # PyNone
    /\ "name" \in DOMAIN request.params.d
    /\ Truthy(request.params.d["name"])
Legacy(method) == startswith(method, TOOLS_CALL_PREFIX)
ResolvedTo(op) == Len(coreCalls) = 1 /\ coreCalls[1].op = op
NotFoundReported ==
    /\ coreCalls = <<>>
    /\ ErrorReported
    /\ HasToken(ErrorText, "Method not found: ") \/ HasToken(ErrorText, "Unknown method: ")

C8_Remainder ==
    Dispatched =>
        /\ startswith(request.method, RESOURCES_READ_PREFIX) =>
              /\ ResolvedTo("read_resource")
              /\ coreCalls[1].target =
                     PyStr(RemainderAfter(request.method, RESOURCES_READ_PREFIX))
        /\ startswith(request.method, PROMPTS_GET_PREFIX) =>
              /\ ResolvedTo("get_prompt")
              /\ coreCalls[1].target =
                     PyStr(RemainderAfter(request.method, PROMPTS_GET_PREFIX))

\* The failure kind a JSON-RPC error code stands for.
KindOfCode(code) ==
    CASE code = -32601 -> "NotFound"
      [] code = -32602 -> "InvalidRequest"
      [] OTHER -> "InternalError"
\* The text an adapter puts before the core's message.
AdapterPrefix(call) ==
    CASE call.op = "call_tool" -> Lit("Error calling tool ") \o Fmt(call.target) \o Lit(": ")
      [] call.op = "read_resource" ->
             Lit("Error reading resource ") \o Fmt(call.target) \o Lit(": ")
      [] call.op = "get_prompt" ->
             Lit("Error getting prompt ") \o Fmt(call.target) \o Lit(": ")
      [] OTHER -> <<>>

\* C9 as stated: the error /mcp/call answers with for a failed core call
\* carries the kind of the failure.
C9_KindSurfaced ==
    (Responded /\ CoreFailed) =>
        KindOfCode(response.body.error.d.code.n) = outcome.exc.kind

\* C9, amended: whatever its kind, a failed core call is answered with HTTP
\* 200 and an error of code -32603 whose message is the adapter's prefix
\* followed by the core's message; a failure of another kind with the same
\* message gets the same response.
C9_KindFlattened ==
    (Responded /\ CoreFailed) =>
        /\ response.status = 200
        /\ response.body.error.d.code.n = -32603
        /\ ErrorText = AdapterPrefix(coreCalls[1]) \o outcome.exc.msg
        /\ \A k \in KindsOf(coreCalls[1].op) :
              mcp_call_finish(Adapter(coreCalls[1], [outcome EXCEPT !.exc.kind = k]))
                  = response
C9_Witness ==
    /\ Responded /\ CoreFailed
    /\ outcome.exc.kind = "NotFound"
    /\ coreCalls[1].op = "call_tool"
    /\ response.body.error.d.code.n = -32603

\* C10: when the core fails on an unknown tool (resource), _call_tool
\* (_read_resource) raises a ValueError whose message holds "Tool not found"
\* ("Resource not found").
C10_NotFoundText ==
    (CoreFailed /\ outcome.exc.kind = "NotFound" /\ Len(coreCalls) = 1) =>
        /\ coreCalls[1].op = "call_tool" =>
              /\ adapterOut.raised
              /\ adapterOut.exc.type = "ValueError"
              /\ HasToken(adapterOut.exc.msg, "Tool not found")
        /\ coreCalls[1].op = "read_resource" =>
              /\ adapterOut.raised
              /\ adapterOut.exc.type = "ValueError"
              /\ HasToken(adapterOut.exc.msg, "Resource not found")

\* An error object as the client receives it (a JSON object) is well formed:
\* a negative integer code, here always -32603, and a string message.
WellFormedError(e) ==
    /\ e.j = "object"
    /\ DOMAIN e.d = {"code", "message"}
    /\ e.d.code.j = "number"
    /\ e.d.code.n < 0
    /\ e.d.code.n = -32603
    /\ e.d.message.j = "string"
\* The error events of the stream whose "error" is an object, not a bare message.
StructuredErrors ==
    {i \in 1..Len(events) : events[i].type = "error" /\ events[i].data.d.error.j = "object"}

\* C11: the error of every /mcp/call envelope that has one, and every
\* structured error of an error event of /mcp/stream, is an object with a
\* negative integer code, equal to -32603 (the gateway assigns no other code),
\* and a string message.
C11_ErrorCode ==
    /\ (Responded /\ response.body.error # PyNone) =>
           WellFormedError(ToJson(response.body.error))
    /\ \A i \in StructuredErrors : WellFormedError(events[i].data.d.error)
C11_Witness ==
    /\ endpoint = "stream" /\ pc = "yield_error_except"
    /\ StructuredErrors = {2}
    /\ events[2].data.d.error.d.code.n = -32603
    /\ CoreFailed

\* The core has answered the one call of the request, to op, with a value.
Succeeded(op) == Len(coreCalls) = 1 /\ coreCalls[1].op = op /\ outcome.ok
\* The value a field of a descriptor gets: the core's, or the default when the
\* core supplies none.
Defaulted(supplied, default) == IF supplied = PyNone THEN default ELSE supplied
\* What the client has received is the adapter's value: the result of the
\* envelope, or the data of the result event.
Delivered(value) ==
    /\ Responded => response.body = MCPResponse(value, PyNone)
    /\ endpoint = "stream" => events[2] = Event("result", ToJson(value))
\* The adapter returned {key: [entries]} with one entry per item of the core's
\* catalog.
ListedUnder(key) ==
    /\ ~adapterOut.raised
    /\ adapterOut.value.t = "dict"
    /\ DOMAIN adapterOut.value.d = {key}
    /\ adapterOut.value.d[key].t = "list"
    /\ Len(adapterOut.value.d[key].items) = Len(outcome.value.items)
    /\ Delivered(adapterOut.value)

\* C12: for every catalog the core returns, tools/list yields {tools: [...]}
\* with one entry per tool of the core, in the core's order, each with exactly
\* the keys name, description and inputSchema: the core's name, the core's
\* description or "" when it supplies none, the core's schema or {} when it
\* supplies none.  Likewise resources/list (uri; name and description default
\* to "", mimeType to "text/plain") and prompts/list (name; description
\* defaults to "", arguments to []).
C12_ListProjection ==
    /\ Succeeded("list_tools") =>
          /\ ListedUnder("tools")
          /\ \A i \in 1..Len(outcome.value.items) :
                LET core == outcome.value.items[i]
                    entry == adapterOut.value.d.tools.items[i].d
                IN /\ DOMAIN entry = {"name", "description", "inputSchema"}
                   /\ entry.name = core.name
                   /\ entry.description = Defaulted(core.description, PyStr(<<"">>))
                   /\ entry.inputSchema = Defaulted(core.inputSchema, EmptyDict)
    /\ Succeeded("list_resources") =>
          /\ ListedUnder("resources")
          /\ \A i \in 1..Len(outcome.value.items) :
                LET core == outcome.value.items[i]
                    entry == adapterOut.value.d.resources.items[i].d
                IN /\ DOMAIN entry = {"uri", "name", "description", "mimeType"}
                   /\ entry.uri = core.uri
                   /\ entry.name = Defaulted(core.name, PyStr(<<"">>))
                   /\ entry.description = Defaulted(core.description, PyStr(<<"">>))
                   /\ entry.mimeType = Defaulted(core.mimeType, PyStr(<<"text", "plain">>))
    /\ Succeeded("list_prompts") =>
          /\ ListedUnder("prompts")
          /\ \A i \in 1..Len(outcome.value.items) :
                LET core == outcome.value.items[i]
                    entry == adapterOut.value.d.prompts.items[i].d
                IN /\ DOMAIN entry = {"name", "description", "arguments"}
                   /\ entry.name = core.name
                   /\ entry.description = Defaulted(core.description, PyStr(<<"">>))
                   /\ entry.arguments =
                          IF core.hasArguments THEN Defaulted(core.arguments, PyList(<<>>))
                          ELSE PyList(<<>>)
C12_Witness ==
    /\ Responded /\ request.method = TOOLS_LIST /\ Succeeded("list_tools")
    /\ Len(outcome.value.items) = MaxCatalog
    /\ outcome.value.items[1].description = PyNone
    /\ response.body.result.d.tools.items[1].d =
           [name |-> PyStr(<<"t1">>), description |-> PyStr(<<"">>),
            inputSchema |-> EmptyDict]

\* The core left a field out: it is None or empty.
Omitted(field) == field = PyNone \/ field = PyStr(<<"">>)

\* C13: a successful read of the resource at URI u (the URI the core was
\* asked for) yields exactly {contents: [entry]} with the single entry
\* {uri: u, mimeType, text}, where mimeType is the core's or "text/plain" when
\* the core omits it, and text is the core's or "" when the core omits it.
C13_ReadShape ==
    Succeeded("read_resource") =>
        /\ ~adapterOut.raised
        /\ adapterOut.value.t = "dict"
        /\ DOMAIN adapterOut.value.d = {"contents"}
        /\ adapterOut.value.d.contents.t = "list"
        /\ Len(adapterOut.value.d.contents.items) = 1
        /\ LET entry == adapterOut.value.d.contents.items[1].d
               core == outcome.value
           IN /\ DOMAIN entry = {"uri", "mimeType", "text"}
              /\ entry.uri = coreCalls[1].target
              /\ entry.mimeType = IF Omitted(core.mimeType) THEN PyStr(<<"text", "plain">>)
                                  ELSE core.mimeType
              /\ entry.text = IF Omitted(core.text) THEN PyStr(<<"">>) ELSE core.text
        /\ Delivered(adapterOut.value)
C13_Witness ==
    /\ Responded /\ request.method = <<"resources", "read", "x">>
    /\ Succeeded("read_resource")
    /\ outcome.value = [mimeType |-> PyNone, text |-> PyNone]
    /\ response.body.result.d.contents.items =
           <<PyDict([uri |-> PyStr(<<"x">>), mimeType |-> PyStr(<<"text", "plain">>),
                     text |-> PyStr(<<"">>)])>>

\* C16: a request makes at most one call into the core, and when that call
\* fails the very step in which it fails answers the request: /mcp/call has
\* responded with the error envelope, /mcp/stream has yielded the error event
\* right after "connected"; no further call is pending or made.
C16_NoRetry ==
    /\ Len(coreCalls) <= 1
    /\ pending # NoCall => coreCalls = <<pending>>
    /\ CoreFailed =>
          /\ pending = NoCall
          /\ Len(coreCalls) = 1
          /\ endpoint = "call" =>
                /\ Responded
                /\ response.body.result = PyNone
                /\ response.body.error # PyNone
          /\ endpoint = "stream" => Types = <<"connected", "error">>
C16_Witness ==
    /\ endpoint = "stream" /\ pc = "yield_error_except" /\ CoreFailed
    /\ coreCalls = <<Call("get_prompt", PyStr(<<"x">>), EmptyDict)>>
    /\ Types = <<"connected", "error">>

\* C19: when the client goes away while the stream is in progress (generate()
\* suspended after "connected", while the core call is pending, or after
\* "result"), that step yields no event, the stream then holds no "error" and
\* no "done", and no event is produced afterwards.
C19_DisconnectSilent ==
    [][/\ (pc \in {"yield_connected", "stream_await", "yield_result"} /\ pc' = "cancelled")
          => (events' = events /\ \A i \in 1..Len(events') : events'[i].type \notin Terminal)
       /\ pc = "cancelled" => Len(events') <= Len(events)]_vars
C19_Witness ==
    /\ endpoint = "stream" /\ pc = "cancelled"
    /\ Types = <<"connected", "result">>

\* The stream has yielded its terminal event.
Terminated ==
    endpoint = "stream" /\ Len(events) > 0 /\ events[Len(events)].type \in Terminal

\* C20: a stream that has yielded "connected" eventually yields a terminal
\* event ("done" or "error") unless its client goes away, also when the result
\* cannot be serialized; generate() never runs to its end without one.
C20_TerminalEvent ==
    /\ (endpoint = "stream" /\ pc = "yield_connected") ~> (Terminated \/ pc = "cancelled")
    /\ [](pc = "stream_end" => Terminated)
C20_Witness ==
    /\ endpoint = "stream" /\ pc = "stream_end" /\ Terminated
    /\ outcome.ok /\ ~adapterOut.raised /\ ~Encodable(adapterOut.value)
    /\ Types = <<"connected", "error">>

\* C14: two reads of resources/read/x/x, on either endpoint, between which the
\* core's resources do not change deliver the same contents[0].text, whatever
\* other requests are handled in between or at the same time.
C14_ReadIdempotent == Len(reads) = 2 => reads[1] = reads[2]
C14_Witness ==
    /\ reads = << <<"a">>, <<"a">> >>
    /\ \E t \in Tasks : tasks[t].request.method = READ_X /\ tasks[t].pc = "yield_result"

C17_InitializeFirst ==
    /\ initCalls <= 1
    /\ phase # "created" => initCalls = 1
    /\ ((\E t \in Tasks : tasks[t] # IdleTask) \/ reads # NoReads \/ issued # {})
          => phase \in {"serving", "stopped"}
C17_Witness ==
    /\ phase = "serving" /\ initCalls = 1
    /\ \E t, u \in Tasks :
          /\ tasks[t].pc = "call_await"
          /\ tasks[u].ep = "health"

\* The streams in progress and the session identifier each has announced.
Streams == {t \in Tasks : tasks[t].ep = "stream"}
SessionId(t) == tasks[t].events[1].data.d.session_id.s
\* The result events the request of t can get, over what the core can hold.
OwnResults(t) ==
    LET own == generate_dispatch(tasks[t].request) IN
    IF own.act # "call" THEN {}
    ELSE { generate_result(tasks[t].request,
                           Adapter(own, CoreAnswer(resources, own)).value).value :
             resources \in {r \in Stores : CoreAnswer(r, own).ok} }

\* C18: with several streams in progress at once, the events of each are
\* connected, then result and done, or connected, then error; the result of
\* each is a result of its own request, for its own URI; and no two streams
\* announce the same session identifier.
C18_ConcurrentStreams ==
    /\ \A t \in Streams :
          /\ [i \in 1..Len(tasks[t].events) |-> tasks[t].events[i].type]
                 \in { <<"connected">>, <<"connected", "result">>,
                       <<"connected", "result", "done">>, <<"connected", "error">> }
          /\ (Len(tasks[t].events) >= 2 /\ tasks[t].events[2].type = "result") =>
                /\ tasks[t].events[2] \in OwnResults(t)
                /\ tasks[t].events[2].data.d.contents.items[1].d.uri.s =
                       RemainderAfter(tasks[t].request.method, RESOURCES_READ_PREFIX)
    /\ \A t, u \in Streams : t # u => SessionId(t) # SessionId(u)
C18_Witness ==
    \E t, u \in Streams :
        /\ tasks[t].request.method = READ_X /\ tasks[u].request.method = READ_XX
        /\ tasks[t].pc = "yield_result" /\ tasks[u].pc = "yield_done"
        /\ tasks[t].events[2] # tasks[u].events[2]
        /\ SessionId(t) # SessionId(u)

\* The two dispatchers agree on a request: both resolve to the same call into
\* the core, with the same target and arguments, or both fail with unknown
\* method ("Method not found" in mcp_call, "Unknown method" in _handle_method).
UnknownMethod(d, method) ==
    /\ d.act = "raise"
    /\ \/ d.exc = HTTPException(404, Lit("Method not found: ") \o method)
       \/ d.exc = ValueError(Lit("Unknown method: ") \o method)
Agree(unary, streaming, method) ==
    \/ unary.act = "call" /\ streaming = unary
    \/ UnknownMethod(unary, method) /\ UnknownMethod(streaming, method)
\* A request has arrived whose method is not the literal tools/call.
NotLiteralToolsCall == pc # "idle" /\ request.method # TOOLS_CALL

IsModelList(v) ==
    v.t = "list" /\ Len(v.items) > 0 /\ \A i \in 1..Len(v.items) : v.items[i].t = "model"
ToolResultShapes ==
    {v \in CoreValues : v.t \in {"None", "dict", "model"} \/ v = PyList(<<>>) \/ IsModelList(v)}
\* A stream for the literal tools/call has yielded its result event.
ToolResultStreamed ==
    /\ endpoint = "stream" /\ request.method = TOOLS_CALL /\ pc = "yield_result"
    /\ outcome.ok /\ outcome.value \in ToolResultShapes
\* The result of the envelope /mcp/call returns for the same tool and the same
\* value of the core, as written to the client.
UnaryResultFor(call, o) == serialize_response(mcp_call_finish(_call_tool(call.target, o)).body.result)

\* C24: for a successful tools/call, the payload of the "result" event of
\* /mcp/stream is the JSON of the result of the /mcp/call envelope for the same
\* value of the core, for a plain value, a model instance, an empty list and a
\* non-empty list of model instances.
C24_SameNormalizedValue ==
    ToolResultStreamed => events[2].data = UnaryResultFor(coreCalls[1], outcome)

\* The request is for prompts/get/<name>.
IsPromptsGet == request.method # TOOLS_CALL /\ startswith(request.method, PROMPTS_GET_PREFIX)
\* The one call the request in progress has made into the core.
TheCall == coreCalls[1]

\* C25: for the literal tools/call, on /mcp/call and on /mcp/stream, the core's
\* call_tool is called with params.name and params.arguments, with {} for
\* arguments when params has no key "arguments", and with nothing else of
\* params; for prompts/get/<name> the core's get_prompt is called with the
\* whole params mapping, {} when the request has no params.
C25_ArgumentsPassed ==
    Len(coreCalls) >= 1 =>
        /\ request.method = TOOLS_CALL =>
              /\ coreCalls = <<Call("call_tool", request.params.d.name,
                                    IF "arguments" \in DOMAIN request.params.d
                                    THEN request.params.d.arguments ELSE EmptyDict)>>
        /\ IsPromptsGet =>
              /\ Len(coreCalls) = 1
              /\ TheCall.op = "get_prompt"
              /\ TheCall.args = (IF request.params = PyNone THEN EmptyDict ELSE request.params)
C25_Witness ==
    /\ endpoint = "call" /\ pc = "call_await"
    /\ request = MCPRequest(TOOLS_CALL, PyDict([name |-> PyStr(<<"t1">>), extra |-> PyInt(1)]))
    /\ TheCall = Call("call_tool", PyStr(<<"t1">>), EmptyDict)

\* The request is a tools/call whose params hold "name" with an empty value.
EmptyName ==
    /\ request.method = TOOLS_CALL
    /\ request.params # PyNone /\ "name" \in DOMAIN request.params.d
    /\ request.params.d.name \in {PyNone, PyStr(<<"">>)}
\* What a tools/call without "name" is answered with on each endpoint.
MissingNameEnvelope ==
    Http200(MCPResponse(PyNone,
        PyDict([code |-> PyInt(INTERNAL_ERROR),
                message |-> PyStr(<<"400", ": ", "Missing 'name' parameter in tools/call">>)])))
MissingNameEvent ==
    Event("error", [j |-> "object",
                    d |-> [error |-> [j |-> "string",
                                      s |-> <<"Missing name parameter in tools/call">>]]])

\* C27: on /mcp/call and on /mcp/stream, a tools/call whose "name" is present
\* but is the empty string or null is answered as one without "name": the
\* missing-name error envelope, or the missing-name error event, and the core's
\* call_tool is not called; call_tool is never called with an empty name for
\* the literal tools/call.
C27_EmptyNameIsMissing ==
    /\ (EmptyName /\ Dispatched) =>
          /\ coreCalls = <<>>
          /\ endpoint = "call" => response = MissingNameEnvelope
          /\ endpoint = "stream" =>
                /\ Len(events) = 2 /\ events[2] = MissingNameEvent
                /\ pc \in {"yield_error_return", "stream_end"}
    /\ (LacksName /\ Dispatched) =>
          /\ coreCalls = <<>>
          /\ endpoint = "call" => response = MissingNameEnvelope
          /\ endpoint = "stream" => Len(events) = 2 /\ events[2] = MissingNameEvent
    /\ \A i \in 1..Len(coreCalls) :
          (request.method = TOOLS_CALL /\ coreCalls[i].op = "call_tool")
              => coreCalls[i].target \notin {PyNone, PyStr(<<"">>)}
C27_Witness ==
    /\ endpoint = "stream" /\ pc = "stream_end"
    /\ request = MCPRequest(TOOLS_CALL, PyDict([name |-> PyStr(<<"">>)]))
    /\ events[2] = MissingNameEvent /\ coreCalls = <<>>

\* A template prefix{param}: a fixed prefix, then one named parameter in
\* braces, and nothing else.
BraceFree(s) == \A i \in 1..Len(s) : s[i] \notin Braces
Template(prefix, param) == prefix \o <<"{">> \o param \o <<"}">>
Templates ==
    { <<prefix, param>> \in Uris \X Uris :
        param # <<>> /\ call_pattern = Template(prefix, param) }
\* call_uri is prefix followed by rest.
Continues(prefix, rest) == call_uri = prefix \o rest
StartsWithPrefix(prefix) == \E rest \in Uris : Continues(prefix, rest)

\* C26: for a pattern prefix{param}, _matches_pattern holds exactly when the
\* URI starts with prefix, and _extract_params then returns {param: rest},
\* rest being what follows prefix in the URI; when the URI does not start with
\* prefix, or the pattern has no brace, _extract_params returns the empty
\* mapping, and a pattern without brace matches the identical URI only.
C26_PatternUtility ==
    /\ \A tp \in Templates :
          /\ matches.called => (matches.value <=> StartsWithPrefix(tp[1]))
          /\ extracted # NotCalled =>
                /\ ~extracted.raised
                /\ \A rest \in Uris :
                      Continues(tp[1], rest) => extracted.value = OneParam(tp[2], rest)
                /\ ~StartsWithPrefix(tp[1]) => extracted.value = NoParams
    /\ BraceFree(call_pattern) =>
          /\ matches.called => (matches.value <=> call_uri = call_pattern)
          /\ extracted # NotCalled => extracted = Return(NoParams)
C26_Witness ==
    /\ call_pattern = <<"a", "{", "b", "}">> /\ call_uri = <<"a", "b">>
    /\ matches = Matched(TRUE)
    /\ extracted = Return(OneParam(<<"b">>, <<"b">>))

\* A TLS option is on the command line.
TlsFlagGiven ==
    argv.ssl \/ argv.ssl_cert # PyNone \/ argv.ssl_key # PyNone \/ argv.ssl_generate
\* The process has created an HTTP server (and called its run()).
ServerCreated == self # NoServer
\* The server holds a TLS configuration with a certificate path and a key path.
HasTlsConfig ==
    /\ self.ssl_config # PyNone
    /\ DOMAIN self.ssl_config.d = {"cert", "key"}
    /\ Truthy(self.ssl_config.d.cert) /\ Truthy(self.ssl_config.d.key)

\* C28: without --mode http the process calls mcp.run() once and creates no
\* HTTP server; with --mode http and any of --ssl, --ssl-cert, --ssl-key,
\* --ssl-generate given, a server that is created holds a TLS configuration
\* with both paths (given, or generated) and listens with TLS, and otherwise
\* the process ends with status 1 without a server.
C28_CliModes ==
    cli_pc \notin {"off", "parsed"} =>
        /\ argv.mode = "stdio" => (stdio_runs = 1 /\ ~ServerCreated)
        /\ argv.mode = "http" => stdio_runs = 0
        /\ (argv.mode = "http" /\ TlsFlagGiven) =>
              /\ ServerCreated => (HasTlsConfig /\ cli_pc \in {"https", "exited"})
              /\ cli_pc # "http"
              /\ (~ServerCreated) => (cli_pc = "exited" /\ exit_status = 1)

\* The step is a run of main() that calls generate_self_signed_cert(argv.host).
CertCalled == cli_pc = "parsed" /\ cert_result' # NotCalled
\* Both files of a host exist, or neither does.
PairExists(fs, host) ==
    fs[<<".certs", host \o ".crt">>] # Absent /\ fs[<<".certs", host \o ".key">>] # Absent
NoneExists(fs, host) ==
    fs[<<".certs", host \o ".crt">>] = Absent /\ fs[<<".certs", host \o ".key">>] = Absent
\* What the files hold.
Contents(fs) == {fs[p] : p \in DOMAIN fs}

\* C22: a call of generate_self_signed_cert(hostname) that gets past its
\* imports returns (<dir>/<hostname>.crt, <dir>/<hostname>.key) and leaves
\* both files in place; when neither existed it has written a new pair; when
\* both existed it has changed no file; the files of another hostname are
\* never touched; and a call that raises has changed no file.
C22_CertPair ==
    [][CertCalled =>
          IF cert_result'.raised
          THEN ~cryptography /\ files' = files
          ELSE /\ cert_result'.value = << <<".certs", argv.host \o ".crt">>,
                                         <<".certs", argv.host \o ".key">> >>
               /\ PairExists(files', argv.host)
               /\ NoneExists(files, argv.host) =>
                     /\ files'[<<".certs", argv.host \o ".crt">>] \notin Contents(files)
                     /\ files'[<<".certs", argv.host \o ".key">>] \notin Contents(files)
               /\ PairExists(files, argv.host) => files' = files
               /\ \A p \in DOMAIN files :
                     p \notin {<<".certs", argv.host \o ".crt">>,
                               <<".certs", argv.host \o ".key">>} => files'[p] = files[p]]_vars
\* A later call: the pair of 127.0.0.1 was generated by an earlier run, before
\* another run generated that of the other host, and this run was handed it.
C22_Witness ==
    /\ argv.host = "127.0.0.1" /\ cli_pc = "https"
    /\ cert_result = Return(<<cert_path("127.0.0.1"), key_path("127.0.0.1")>>)
    /\ files[cert_path("127.0.0.1")] = Preexisting + 1
    /\ files[key_path("127.0.0.1")] = Preexisting + 1
    /\ files[cert_path("example")] = Preexisting + 2

\* What a request is to be answered with, as a function of the request and of
\* what the core holds, written out for the requests the serving process is
\* sent: the contents of the resource the method names, the core's failure to
\* read it, or unknown method.
UriOf(req) == SubSeq(req.method, 3, Len(req.method))
IsRead(req) == req.method \in {READ_X, READ_XX}
ReadResult(req, resources) ==
    PyDict([contents |-> PyList(<<
        PyDict([uri |-> PyStr(UriOf(req)), mimeType |-> PyStr(<<"text", "plain">>),
                text |-> resources[UriOf(req)].value.text])>>)])
ErrorWith(message) == PyDict([code |-> PyInt(INTERNAL_ERROR), message |-> PyStr(message)])
ReadError(req, resources) ==
    ErrorWith(<<"Error reading resource ">> \o UriOf(req) \o <<": ">>
              \o resources[UriOf(req)].exc.msg)
EnvelopeFor(req, resources) ==
    IF ~IsRead(req)
    THEN Http200(MCPResponse(PyNone,
             ErrorWith(<<"404", ": ", "Method not found: ">> \o req.method)))
    ELSE IF resources[UriOf(req)].ok
    THEN Http200(MCPResponse(ReadResult(req, resources), PyNone))
    ELSE Http200(MCPResponse(PyNone, ReadError(req, resources)))
EventFor(req, resources) ==
    IF ~IsRead(req)
    THEN Event("error", ToJson(PyDict(
             [error |-> ErrorWith(<<"Unknown method: ">> \o req.method)])))
    ELSE IF resources[UriOf(req)].ok
    THEN Event("result", ToJson(ReadResult(req, resources)))
    ELSE Event("error", ToJson(PyDict([error |-> ReadError(req, resources)])))
\* In this step the invocation t of mcp_call returns its envelope; generate()
\* yields the event that answers the request of t.
EnvelopeReturned(t) ==
    tasks[t].pc # "responded" /\ tasks'[t].ep = "call" /\ tasks'[t].pc = "responded"
AnswerYielded(t) ==
    /\ tasks[t].pc \in {"yield_connected", "stream_await"}
    /\ tasks'[t].pc \in {"yield_result", "yield_error_return", "yield_error_except"}

\* C21: no step of the serving process (health, unary and streaming requests,
\* answered or failing, at once or one after another) changes the gateway's
\* host, port, TLS configuration or reference to the core; every envelope and
\* every answering event is the one that the request and what the core holds
\* at that moment determine; and when no request is in progress nothing that
\* was built for a request is left.
C21_NoCrossRequestState ==
    [][/\ self' = self
       /\ \A t \in Tasks :
             /\ EnvelopeReturned(t) =>
                   tasks'[t].response = EnvelopeFor(tasks'[t].request, store)
             /\ AnswerYielded(t) =>
                   /\ Len(tasks'[t].events) = 2
                   /\ tasks'[t].events[2] = EventFor(tasks[t].request, store)
             /\ (tasks[t] # IdleTask /\ tasks'[t].pc = "idle") => tasks'[t] = IdleTask]_vars
C21_Witness ==
    /\ self.ssl_config # PyNone /\ issued # {} /\ ~store[URI_XX].ok
    /\ \E t, u \in Tasks :
          /\ tasks[t] = Answered(MCPRequest(READ_XX, PyNone),
                                 EnvelopeFor(MCPRequest(READ_XX, PyNone), store))
          /\ tasks[u].ep = "health"

====
